---- MODULE Spec2Model ----
(***************************************************************************)
(* Coqui TTS voice-cloning server (src/coqui_server.py).                   *)
(*                                                                         *)
(* The process loads the XTTS model, then serves requests one at a time.   *)
(* A request handler is modelled statement block by statement block; the   *)
(* file system (temporary directory, temp_voices directory, files named by *)
(* callers) is part of the state.  External calls (the TTS model, the      *)
(* soundfile reader and writer, pydub/ffmpeg) are environment choices.     *)
(***************************************************************************)
EXTENDS Integers, Sequences, FiniteSets, TLC

\* Number of requests served in one run of the process.
MaxRequests == 2

\* Sample rate the reference clip is coerced to (lines 279, 284, 291, 297).
TargetRate == 22050

(***************************************************************************)
(* Paths.  A path is a record: directory, file id, whether the name        *)
(* carries the "_converted" infix (line 260), and the extension.           *)
(***************************************************************************)
NoPath == [dir |-> "", id |-> 0, conv |-> FALSE, ext |-> ""]

TempVoicesDir == "temp_voices"

TmpDirs == {"/tmp", "/var/folders"}

VoiceA == [dir |-> TempVoicesDir, id |-> 1, conv |-> FALSE, ext |-> "wav"]
VoiceB == [dir |-> TempVoicesDir, id |-> 2, conv |-> FALSE, ext |-> "mp3"]
VoiceC == [dir |-> TempVoicesDir, id |-> 3, conv |-> FALSE, ext |-> "wav"]
VoiceD == [dir |-> TempVoicesDir, id |-> 4, conv |-> FALSE, ext |-> "WAV"]

UserFile    == [dir |-> "/data", id |-> 1, conv |-> FALSE, ext |-> "wav"]
MissingFile == [dir |-> "/data", id |-> 2, conv |-> FALSE, ext |-> "wav"]

\* Directory listings os.listdir may return at start-up (order is the
\* order of the listing).
Listings ==
    { << >>, <<VoiceB>>, <<VoiceD, VoiceB>>, <<VoiceB, VoiceC, VoiceA>>, <<VoiceA>> }

\* Values a caller may put into the JSON field speaker_wav.
JsonPaths == {NoPath, UserFile, MissingFile, VoiceA}

(***************************************************************************)
(* Audio.  A file or buffer is described by whether soundfile can decode   *)
(* it, its sample rate, channel count, frame count and who wrote it.       *)
(***************************************************************************)
NoData == [dec |-> FALSE, rate |-> 0, chans |-> 0, len |-> 0, by |-> "none"]

Clip(dec, rate, chans, len) ==
    [dec |-> dec, rate |-> rate, chans |-> chans, len |-> len, by |-> "upload"]

Rates == {11025, 22050, 44100, 48000}

Channels == {1, 2}

\* Clips a caller may upload to /api/tts/speaker-similarity.
SimClips == { Clip(d, r, c, 4) : d \in BOOLEAN, r \in Rates, c \in Channels }

\* Clips a caller may upload to /api/tts.
TtsClips == { Clip(TRUE, 22050, 1, 4), Clip(TRUE, 44100, 2, 4), Clip(FALSE, 44100, 2, 4) }

DiskClip == [dec |-> TRUE, rate |-> 44100, chans |-> 2, len |-> 4, by |-> "disk"]

Texts == {"", "Hello world"}

(***************************************************************************)
(* Requests.                                                               *)
(***************************************************************************)
Req(endpoint, ctype, isObject, text, path, hasFile, filename, clip) ==
    [endpoint |-> endpoint, ctype |-> ctype, isObject |-> isObject, text |-> text,
     path |-> path, hasFile |-> hasFile, filename |-> filename, clip |-> clip]

NoReq == Req("none", "", FALSE, "", NoPath, FALSE, FALSE, NoData)

TtsJsonRequests ==
    { Req("tts", "json", TRUE, t, p, FALSE, FALSE, NoData) : t \in Texts, p \in JsonPaths }
    \cup { Req("tts", "json", FALSE, "", NoPath, FALSE, FALSE, NoData) }

TtsFormRequests ==
    { Req("tts", "form", FALSE, t, NoPath, FALSE, FALSE, NoData) : t \in Texts }
    \cup { Req("tts", "form", FALSE, t, NoPath, TRUE, FALSE, Clip(FALSE, 0, 0, 0)) : t \in Texts }
    \cup { Req("tts", "form", FALSE, t, NoPath, TRUE, TRUE, c) : t \in Texts, c \in TtsClips }

SimRequests ==
    { Req("sim", "form", FALSE, t, NoPath, FALSE, FALSE, NoData) : t \in Texts }
    \cup { Req("sim", "form", FALSE, "", NoPath, TRUE, TRUE, Clip(TRUE, 22050, 1, 4)) }
    \cup { Req("sim", "form", FALSE, "Hello world", NoPath, TRUE, TRUE, c) : c \in SimClips }

GetRequests ==
    { Req(e, "", FALSE, "", NoPath, FALSE, FALSE, NoData) : e \in {"health", "tts_get"} }

Requests == TtsJsonRequests \cup TtsFormRequests \cup SimRequests \cup GetRequests

(***************************************************************************)
(* Responses and error messages.                                           *)
(***************************************************************************)
Err(kind, cause, advice) == [kind |-> kind, cause |-> cause, advice |-> advice]

NoErr == Err("", "", FALSE)

Resp(status, body, error, loaded) ==
    [status |-> status, body |-> body, error |-> error, model_loaded |-> loaded]

NoResp == Resp(0, "none", NoErr, FALSE)

\* jsonify({"error": ...}), status
JsonError(status, error) == Resp(status, "json", error, FALSE)

\* send_file(audio_buffer, mimetype='audio/wav', ...)
AudioResponse == Resp(200, "audio", NoErr, FALSE)

\* Outcomes of one tts.tts call: a waveform, an empty waveform, an exception.
ModelOutcomes == {"ok", "empty", "fail"}

ModelFailure == "model error"

VARIABLES
    phase,                \* "start", "initialized", "serving", "exited"
    tts,                  \* module global tts: "None" or "TTS"
    initOk,               \* value returned by initialize_tts
    exitCode,             \* process exit status, -1 while running
    tmpdir,               \* tempfile.gettempdir() of the host
    dirExists,            \* os.path.exists("temp_voices")
    dirOrder,             \* order in which os.listdir reports the entries
    fs,                   \* the files that exist: path -> content
    nextTmp,              \* next unused temporary file name
    nreq,                 \* requests accepted so far
    pc,                   \* position of the handler of the request in flight
    req,                  \* the request in flight
    text,                 \* local: text
    speaker_wav,          \* local: speaker_wav / speaker_wav_path
    default_speaker_path, \* local: default_speaker_path
    data,                 \* local: data (decoded buffer)
    samplerate,           \* local: samplerate
    wav,                  \* local: wav returned by the model
    resp,                 \* response of the request in flight
    created,              \* history: files created by the request in flight
    calls,                \* history: tts.tts calls of the request in flight
    ops,                  \* history: coercion steps run in the request in flight
    fs0,                  \* history: the files when the request arrived
    env                   \* history: what the transcoding step found installed

vars == << phase, tts, initOk, exitCode, tmpdir, dirExists, dirOrder, fs, nextTmp, nreq,
           pc, req, text, speaker_wav, default_speaker_path, data, samplerate, wav,
           resp, created, calls, ops, fs0, env >>

hostVars  == << tmpdir, dirExists, dirOrder >>
bootVars  == << phase, tts, initOk, exitCode >>
localVars == << text, speaker_wav, default_speaker_path, data, samplerate, wav >>
histVars  == << created, calls, ops, fs0, env >>

(***************************************************************************)
(* File system helpers.                                                    *)
(***************************************************************************)
Exists(f, p) == p \in DOMAIN f

Put(f, p, c) == [q \in DOMAIN f \cup {p} |-> IF q = p THEN c ELSE f[q]]

Unlink(f, p) == [q \in DOMAIN f \ {p} |-> f[q]]

Rename(f, src, dst) ==
    [q \in (DOMAIN f \ {src}) \cup {dst} |-> IF q = dst THEN f[src] ELSE f[q]]

Content(f, p) == IF Exists(f, p) THEN f[p] ELSE NoData

\* tempfile.NamedTemporaryFile(delete=False, suffix='.wav').name
NewTmp == [dir |-> tmpdir, id |-> nextTmp, conv |-> FALSE, ext |-> "wav"]

\* path.startswith('/tmp')
StartsWithTmp(p) == p.dir = "/tmp"

\* os.listdir(temp_voices_dir)
ListDir == SelectSeq(dirOrder, LAMBDA p : Exists(fs, p))

InitialFiles(listing) ==
    [p \in {UserFile} \cup {listing[i] : i \in 1..Len(listing)} |-> DiskClip]

Init ==
    /\ phase = "start"
    /\ tts = "None"
    /\ initOk = FALSE
    /\ exitCode = -1
    /\ tmpdir \in TmpDirs
    /\ dirExists \in BOOLEAN
    /\ dirOrder \in Listings
    /\ (~dirExists => dirOrder = << >>)
    /\ fs = InitialFiles(dirOrder)
    /\ nextTmp = 1
    /\ nreq = 0
    /\ pc = "idle"
    /\ req = NoReq
    /\ text = ""
    /\ speaker_wav = NoPath
    /\ default_speaker_path = NoPath
    /\ data = NoData
    /\ samplerate = 0
    /\ wav = "none"
    /\ resp = NoResp
    /\ created = {}
    /\ calls = << >>
    /\ ops = << >>
    /\ fs0 = fs
    /\ env = "none"


(***************************************************************************)
(* Start-up: initialize_tts and the __main__ block.                        *)
(***************************************************************************)
\* TTS(model_name) raises, or the logging of the model type after it
\* raises, or neither.
InitializeOutcomes == {"ok", "ctor_fail", "log_fail"}

initialize_tts ==
    /\ phase = "start"
    /\ \E o \in InitializeOutcomes :
        /\ tts' = IF o = "ctor_fail" THEN "None" ELSE "TTS"
        /\ initOk' = (o = "ok")
    /\ phase' = "initialized"
    /\ UNCHANGED << exitCode, hostVars, fs, nextTmp, nreq, pc, req, localVars, resp,
                    histVars >>

MainAlwaysServes(ok) == "serving"

\* if not initialize_tts(): exit(1), else app.run(...)
MainDecision(ok) == IF ok THEN "serving" ELSE "exited"

main ==
    /\ phase = "initialized"
    /\ phase' = MainDecision(initOk)
    /\ exitCode' = IF phase' = "exited" THEN 1 ELSE exitCode
    /\ UNCHANGED << tts, initOk, hostVars, fs, nextTmp, nreq, pc, req, localVars, resp,
                    histVars >>

(***************************************************************************)
(* Request dispatch (the Flask routes) and the return of the response.     *)
(***************************************************************************)
Entry(r) ==
    CASE r.endpoint = "tts" -> "tts_parse"
      [] r.endpoint = "sim" -> "sim_validate"
      [] r.endpoint = "tts_get" -> "tts_get"
      [] OTHER -> "health"

Dispatch ==
    /\ phase = "serving"
    /\ pc = "idle"
    /\ nreq < MaxRequests
    /\ \E r \in Requests :
        /\ req' = r
        /\ pc' = Entry(r)
    /\ nreq' = nreq + 1
    /\ text' = ""
    /\ speaker_wav' = NoPath
    /\ default_speaker_path' = NoPath
    /\ data' = NoData
    /\ samplerate' = 0
    /\ wav' = "none"
    /\ resp' = NoResp
    /\ created' = {}
    /\ calls' = << >>
    /\ ops' = << >>
    /\ fs0' = fs
    /\ env' = "none"
    /\ UNCHANGED << bootVars, hostVars, fs, nextTmp >>

Return ==
    /\ pc = "done"
    /\ pc' = "idle"
    /\ UNCHANGED << bootVars, hostVars, fs, nextTmp, nreq, req, localVars, resp, histVars >>

\* except Exception as e: return jsonify({"error": str(e)}), 500
ErrorResponse(e) == JsonError(500, e)

health_check ==
    /\ pc = "health"
    /\ resp' = Resp(200, "json", NoErr, tts # "None")
    /\ pc' = "done"
    /\ UNCHANGED << bootVars, hostVars, fs, nextTmp, nreq, req, localVars, histVars >>

(***************************************************************************)
(* The model call, shared by both handlers.                                *)
(***************************************************************************)
Call(ref, origin, outcome) ==
    [ref |-> ref, file |-> Content(fs, ref), ops |-> ops, origin |-> origin,
     outcome |-> outcome]

\* The model cannot produce a waveform from a reference file that is absent.
CanReturn(o, ref) == o = "fail" \/ Exists(fs, ref)

(***************************************************************************)
(* POST /api/tts: text_to_speech.                                          *)
(***************************************************************************)
\* Lines 65-71: GET /api/tts answers with the status of the server.
text_to_speech_get ==
    /\ pc = "tts_get"
    /\ resp' = Resp(200, "json", NoErr, FALSE)
    /\ pc' = "done"
    /\ UNCHANGED << bootVars, hostVars, fs, nextTmp, nreq, req, localVars, histVars >>

\* Lines 74-92: read the body; save an uploaded clip.
text_to_speech_parse ==
    /\ pc = "tts_parse"
    /\ IF req.ctype = "json" /\ ~req.isObject
       THEN /\ resp' = ErrorResponse(Err("AttributeError", "", FALSE))
            /\ pc' = "done"
            /\ UNCHANGED << text, speaker_wav, fs, nextTmp, created >>
       ELSE /\ text' = req.text
            /\ pc' = "tts_validate"
            /\ resp' = resp
            /\ IF req.ctype = "json"
               THEN /\ speaker_wav' = req.path
                    /\ UNCHANGED << fs, nextTmp, created >>
               ELSE IF req.hasFile /\ req.filename
                    THEN /\ fs' = Put(fs, NewTmp, req.clip)
                         /\ speaker_wav' = NewTmp
                         /\ nextTmp' = nextTmp + 1
                         /\ created' = created \cup {NewTmp}
                    ELSE /\ speaker_wav' = NoPath
                         /\ UNCHANGED << fs, nextTmp, created >>
    /\ UNCHANGED << bootVars, hostVars, nreq, req, default_speaker_path, data, samplerate,
                    wav, calls, ops, fs0, env >>

\* Lines 94-100: if not text ... ; if speaker_wav ...
text_to_speech_validate ==
    /\ pc = "tts_validate"
    /\ IF text = ""
       THEN /\ resp' = JsonError(400, Err("Text is required", "", FALSE))
            /\ pc' = "done"
       ELSE /\ pc' = IF speaker_wav # NoPath THEN "tts_clone" ELSE "tts_default"
            /\ resp' = resp
    /\ UNCHANGED << bootVars, hostVars, fs, nextTmp, nreq, req, localVars, histVars >>

\* raise Exception(f"Voice cloning failed: {str(clone_error)}")
CloneError(m) == Err("Voice cloning failed", m, FALSE)

\* Lines 100-107: voice cloning with the request's reference.
text_to_speech_clone ==
    /\ pc = "tts_clone"
    /\ \E o \in ModelOutcomes :
        /\ CanReturn(o, speaker_wav)
        /\ calls' = Append(calls, Call(speaker_wav,
                                       IF req.ctype = "json" THEN "json" ELSE "uploaded",
                                       o))
        /\ IF o = "fail"
           THEN /\ resp' = ErrorResponse(CloneError(ModelFailure))
                /\ pc' = "done"
                /\ wav' = wav
           ELSE /\ wav' = o
                /\ pc' = "tts_encode"
                /\ resp' = resp
    /\ UNCHANGED << bootVars, hostVars, fs, nextTmp, nreq, req, text, speaker_wav,
                    default_speaker_path, data, samplerate, created, ops, fs0, env >>

AllFiles(listing) == listing

\* [f for f in os.listdir(temp_voices_dir) if f.endswith('.wav')]
VoiceFiles(listing) == SelectSeq(listing, LAMBDA p : p.ext = "wav")

\* The clip written by lines 134-156: 2.0 s at 22050 Hz, one channel.
SynthClip == [dec |-> TRUE, rate |-> TargetRate, chans |-> 1, len |-> 2 * TargetRate,
              by |-> "synth"]

\* Lines 108-159: pick the default reference, or synthesize one.
text_to_speech_default ==
    /\ pc = "tts_default"
    /\ LET voice_files == IF dirExists THEN VoiceFiles(ListDir) ELSE << >>
       IN  IF voice_files # << >>
           THEN /\ default_speaker_path' = voice_files[1]
                /\ UNCHANGED << fs, nextTmp, created >>
           ELSE /\ fs' = Put(fs, NewTmp, SynthClip)
                /\ default_speaker_path' = NewTmp
                /\ nextTmp' = nextTmp + 1
                /\ created' = created \cup {NewTmp}
    /\ pc' = "tts_default_call"
    /\ UNCHANGED << bootVars, hostVars, nreq, req, text, speaker_wav, data, samplerate, wav,
                    resp, calls, ops, fs0, env >>

\* raise Exception(f"TTS generation failed: ... please upload a voice sample ...")
DefaultErrorNoAdvice(m) == Err("TTS generation failed", m, FALSE)

DefaultError(m) == Err("TTS generation failed", m, TRUE)

\* Lines 161-173: synthesis with the default reference and its clean-up.
text_to_speech_default_call ==
    /\ pc = "tts_default_call"
    /\ \E o \in ModelOutcomes :
        /\ CanReturn(o, default_speaker_path)
        /\ calls' = Append(calls, Call(default_speaker_path,
                                       IF default_speaker_path \in created
                                       THEN "synth" ELSE "disk", o))
        /\ IF o = "fail"
           THEN /\ fs' = IF StartsWithTmp(default_speaker_path)
                            /\ Exists(fs, default_speaker_path)
                         THEN Unlink(fs, default_speaker_path) ELSE fs
                /\ resp' = ErrorResponse(DefaultError(ModelFailure))
                /\ pc' = "done"
                /\ wav' = wav
           ELSE /\ fs' = IF StartsWithTmp(default_speaker_path)
                         THEN Unlink(fs, default_speaker_path) ELSE fs
                /\ wav' = o
                /\ pc' = "tts_encode"
                /\ resp' = resp
    /\ UNCHANGED << bootVars, hostVars, nextTmp, nreq, req, text, speaker_wav,
                    default_speaker_path, data, samplerate, created, ops, fs0, env >>

\* Lines 176-191 and 313-325: wav.max() raises on an empty waveform.
Encode(next) ==
    IF wav = "empty"
    THEN /\ resp' = ErrorResponse(Err("ValueError", "", FALSE))
         /\ pc' = "done"
    ELSE /\ pc' = next
         /\ resp' = resp

text_to_speech_encode ==
    /\ pc = "tts_encode"
    /\ Encode("tts_finish")
    /\ UNCHANGED << bootVars, hostVars, fs, nextTmp, nreq, req, localVars, histVars >>

\* Lines 193-204: if speaker_wav and os.path.exists(speaker_wav): os.unlink(...)
text_to_speech_finish ==
    /\ pc = "tts_finish"
    /\ fs' = IF speaker_wav # NoPath /\ Exists(fs, speaker_wav)
             THEN Unlink(fs, speaker_wav) ELSE fs
    /\ resp' = AudioResponse
    /\ pc' = "done"
    /\ UNCHANGED << bootVars, hostVars, nextTmp, nreq, req, localVars, histVars >>


(***************************************************************************)
(* POST /api/tts/speaker-similarity: speaker_similarity_tts.               *)
(***************************************************************************)
\* Lines 214-221.
speaker_similarity_validate ==
    /\ pc = "sim_validate"
    /\ IF req.text = ""
       THEN /\ resp' = JsonError(400, Err("Text is required", "", FALSE))
            /\ pc' = "done"
       ELSE IF ~req.hasFile
            THEN /\ resp' = JsonError(400, Err("Speaker audio file is required", "", FALSE))
                 /\ pc' = "done"
            ELSE /\ pc' = "sim_save"
                 /\ resp' = resp
    /\ text' = req.text
    /\ UNCHANGED << bootVars, hostVars, fs, nextTmp, nreq, req, speaker_wav,
                    default_speaker_path, data, samplerate, wav, histVars >>

\* Lines 223-228: save the uploaded clip to a temporary file.
speaker_similarity_save ==
    /\ pc = "sim_save"
    /\ fs' = Put(fs, NewTmp, req.clip)
    /\ speaker_wav' = NewTmp
    /\ nextTmp' = nextTmp + 1
    /\ created' = created \cup {NewTmp}
    /\ pc' = "sim_decode"
    /\ UNCHANGED << bootVars, hostVars, nreq, req, text, default_speaker_path, data,
                    samplerate, wav, resp, calls, ops, fs0, env >>

\* data, samplerate = sf.read(path): the samples of a decodable file.
Decoded(c) == [dec |-> TRUE, rate |-> c.rate, chans |-> c.chans, len |-> c.len,
               by |-> "sf.read"]

\* sf.write(path, data, rate)
Written(d, rate) == [dec |-> TRUE, rate |-> rate, chans |-> d.chans, len |-> d.len,
                     by |-> "sf.write"]

\* Lines 236-240: first, try to read the file directly.
speaker_similarity_decode ==
    /\ pc = "sim_decode"
    /\ IF fs[speaker_wav].dec
       THEN /\ data' = Decoded(fs[speaker_wav])
            /\ samplerate' = fs[speaker_wav].rate
            /\ ops' = Append(ops, "decode")
            /\ pc' = "sim_resample"
       ELSE /\ ops' = Append(ops, "decode_failed")
            /\ pc' = "sim_transcode"
            /\ UNCHANGED << data, samplerate >>
    /\ UNCHANGED << bootVars, hostVars, fs, nextTmp, nreq, req, text, speaker_wav,
                    default_speaker_path, wav, resp, created, calls, fs0, env >>

\* raise Exception(f"Invalid audio file format: {str(audio_error)}")
AudioError(cause) == Err("Invalid audio file format", cause, FALSE)

\* raise Exception("Audio file format not supported. Please upload a WAV file.")
UnsupportedFormat == "Audio file format not supported"

\* raise Exception(f"Failed to convert audio file: {str(pydub_error)}")
ConversionFailed == "Failed to convert audio file"

\* Lines 300-305: if os.path.exists(speaker_wav_path): os.unlink(speaker_wav_path)
CoercionCleanup(f, p) == IF Exists(f, p) THEN Unlink(f, p) ELSE f

\* What the host has installed: pydub missing, pydub present but no ffmpeg at
\* /opt/homebrew/bin, both present.
Hosts == {"no_pydub", "no_ffmpeg", "installed"}

\* How lines 243-269 can end on such a host.
TranscodeOutcomes(h) ==
    CASE h = "no_pydub"  -> {"import_error"}
      [] h = "no_ffmpeg" -> {"load_error"}
      [] OTHER           -> {"load_error", "export_error", "reread_error", "ok"}

\* speaker_wav_path.replace('.wav', '_converted.wav')
ConvertedPath(p) == [p EXCEPT !.conv = TRUE]

\* audio.set_frame_rate(22050).set_channels(1), exported as WAV
Transcoded(c) == [dec |-> TRUE, rate |-> TargetRate, chans |-> 1,
                  len |-> (c.len * TargetRate) \div c.rate, by |-> "pydub"]

\* Lines 242-276: convert with pydub, replace the file, read it again.
speaker_similarity_transcode ==
    /\ pc = "sim_transcode"
    /\ \E h \in Hosts : \E o \in TranscodeOutcomes(h) : \E partial \in BOOLEAN :
        LET out       == Transcoded(fs[speaker_wav])
            converted == ConvertedPath(speaker_wav)
            replaced  == Rename(Put(Unlink(fs, speaker_wav), converted, out),
                                converted, speaker_wav)
        IN  /\ env' = h
            /\ (partial => o = "export_error")
            /\ IF o = "ok"
               THEN /\ fs' = replaced
                    /\ data' = Decoded(out)
                    /\ samplerate' = out.rate
                    /\ ops' = Append(ops, "transcode")
                    /\ pc' = "sim_resample"
                    /\ UNCHANGED << resp, created >>
               ELSE /\ fs' = CASE o = "reread_error" -> CoercionCleanup(replaced, speaker_wav)
                               [] o = "export_error" /\ partial ->
                                    CoercionCleanup(Put(fs, converted, out), speaker_wav)
                               [] OTHER -> CoercionCleanup(fs, speaker_wav)
                    /\ created' = IF partial THEN created \cup {converted} ELSE created
                    /\ resp' = ErrorResponse(AudioError(IF o = "import_error"
                                                        THEN UnsupportedFormat
                                                        ELSE ConversionFailed))
                    /\ pc' = "done"
                    /\ UNCHANGED << data, samplerate, ops >>
    /\ UNCHANGED << bootVars, hostVars, nextTmp, nreq, req, text, speaker_wav,
                    default_speaker_path, wav, calls, fs0 >>

AlwaysResample(sr) == TRUE

\* if samplerate != 22050
NeedsResample(sr) == sr # TargetRate

\* new_length = int(len(data) * (22050 / samplerate)); signal.resample(data, new_length)
Resample(d, sr) == [d EXCEPT !.rate = TargetRate, !.len = (d.len * TargetRate) \div sr]

\* Lines 279-292: resample and save; a failing write ends the coercion.
speaker_similarity_resample ==
    /\ pc = "sim_resample"
    /\ IF NeedsResample(samplerate)
       THEN \E written \in BOOLEAN :
              IF written
              THEN /\ data' = Resample(data, samplerate)
                   /\ fs' = Put(fs, speaker_wav, Written(data', TargetRate))
                   /\ ops' = Append(ops, "resample")
                   /\ pc' = "sim_downmix"
                   /\ resp' = resp
              ELSE /\ fs' = CoercionCleanup(fs, speaker_wav)
                   /\ resp' = ErrorResponse(AudioError("write error"))
                   /\ pc' = "done"
                   /\ UNCHANGED << data, ops >>
       ELSE /\ pc' = "sim_downmix"
            /\ UNCHANGED << data, fs, ops, resp >>
    /\ UNCHANGED << bootVars, hostVars, nextTmp, nreq, req, text, speaker_wav,
                    default_speaker_path, samplerate, wav, created, calls, fs0, env >>

DownmixKeepsRate(d, sr) == Written([d EXCEPT !.chans = 1], sr)

\* data = np.mean(data, axis=1); sf.write(speaker_wav_path, data, 22050)
Downmix(d, sr) == Written([d EXCEPT !.chans = 1], TargetRate)

\* Lines 294-298: ensure mono audio; the coercion is then complete.
speaker_similarity_downmix ==
    /\ pc = "sim_downmix"
    /\ IF data.chans > 1
       THEN \E written \in BOOLEAN :
              IF written
              THEN /\ data' = [data EXCEPT !.chans = 1]
                   /\ fs' = Put(fs, speaker_wav, Downmix(data, samplerate))
                   /\ ops' = ops \o << "downmix", "coerced" >>
                   /\ pc' = "sim_call"
                   /\ resp' = resp
              ELSE /\ fs' = CoercionCleanup(fs, speaker_wav)
                   /\ resp' = ErrorResponse(AudioError("write error"))
                   /\ pc' = "done"
                   /\ UNCHANGED << data, ops >>
       ELSE /\ ops' = Append(ops, "coerced")
            /\ pc' = "sim_call"
            /\ UNCHANGED << data, fs, resp >>
    /\ UNCHANGED << bootVars, hostVars, nextTmp, nreq, req, text, speaker_wav,
                    default_speaker_path, samplerate, wav, created, calls, fs0, env >>

\* Line 310: the model call; its exception reaches the handler of line 339.
speaker_similarity_call ==
    /\ pc = "sim_call"
    /\ \E o \in ModelOutcomes :
        /\ CanReturn(o, speaker_wav)
        /\ calls' = Append(calls, Call(speaker_wav, "uploaded", o))
        /\ IF o = "fail"
           THEN /\ resp' = ErrorResponse(Err("", ModelFailure, FALSE))
                /\ pc' = "done"
                /\ wav' = wav
           ELSE /\ wav' = o
                /\ pc' = "sim_encode"
                /\ resp' = resp
    /\ UNCHANGED << bootVars, hostVars, fs, nextTmp, nreq, req, text, speaker_wav,
                    default_speaker_path, data, samplerate, created, ops, fs0, env >>

speaker_similarity_encode ==
    /\ pc = "sim_encode"
    /\ Encode("sim_finish")
    /\ UNCHANGED << bootVars, hostVars, fs, nextTmp, nreq, req, localVars, histVars >>

\* Lines 327-337: os.unlink(speaker_wav_path); return send_file(...)
speaker_similarity_finish ==
    /\ pc = "sim_finish"
    /\ fs' = Unlink(fs, speaker_wav)
    /\ resp' = AudioResponse
    /\ pc' = "done"
    /\ UNCHANGED << bootVars, hostVars, nextTmp, nreq, req, localVars, histVars >>

Next ==
    \/ initialize_tts
    \/ main
    \/ Dispatch
    \/ Return
    \/ health_check
    \/ text_to_speech_get
    \/ text_to_speech_parse
    \/ text_to_speech_validate
    \/ text_to_speech_clone
    \/ text_to_speech_default
    \/ text_to_speech_default_call
    \/ text_to_speech_encode
    \/ text_to_speech_finish
    \/ speaker_similarity_validate
    \/ speaker_similarity_save
    \/ speaker_similarity_decode
    \/ speaker_similarity_transcode
    \/ speaker_similarity_resample
    \/ speaker_similarity_downmix
    \/ speaker_similarity_call
    \/ speaker_similarity_encode
    \/ speaker_similarity_finish

Spec == Init /\ [][Next]_vars


(***************************************************************************)
(* Properties.                                                             *)
(***************************************************************************)
Range(q) == { q[i] : i \in 1..Len(q) }

IsPost == req.endpoint \in {"tts", "sim"}

\* The coercion of lines 230-298 ran to its end before the call was made.
Coerced(call) == Len(call.ops) > 0 /\ call.ops[Len(call.ops)] = "coerced"

\* C1: when the response of a POST request is returned, every temporary file
\* the request created has been deleted, whatever the exit path.
C1_TempFilesDeleted ==
    (pc = "done" /\ IsPost) => \A p \in created : ~Exists(fs, p)

\* C2: the model is never called with an uploaded clip on which the coercion
\* steps have not completed, on /api/tts as on /api/tts/speaker-similarity.
C2_ModelOnlyAfterCoercion ==
    IsPost => \A i \in 1..Len(calls) : calls[i].origin = "uploaded" => Coerced(calls[i])

\* The request has no text, or lacks the file field speaker-similarity requires.
FailsValidation(r) ==
    \/ r.endpoint \in {"tts", "sim"} /\ r.text = ""
    \/ r.endpoint = "sim" /\ ~r.hasFile

\* C3: a POST request that fails input validation is answered with HTTP 400
\* and the model is never invoked for it.
C3_ValidationFailureIs400 ==
    /\ (FailsValidation(req) => calls = << >>)
    /\ (pc = "done" /\ FailsValidation(req) => resp.status = 400)

\* C4: when direct decode failed and the conversion tool is unavailable the
\* request fails with UnsupportedFormat; when the tool is present but the
\* conversion fails it fails with ConversionFailed; in both cases the saved
\* upload is deleted and the model is never invoked.
C4_CoercionErrors ==
    (pc = "done" /\ req.endpoint = "sim" /\ env # "none" /\ "transcode" \notin Range(ops)) =>
        /\ resp.status = 500
        /\ resp.error.kind = "Invalid audio file format"
        /\ resp.error.cause = IF env = "installed" THEN ConversionFailed
                              ELSE UnsupportedFormat
        /\ ~Exists(fs, speaker_wav)
        /\ calls = << >>

\* The .wav entries of temp_voices when the request arrived, in listing order.
WavsOnArrival ==
    IF dirExists
    THEN SelectSeq(dirOrder, LAMBDA p : p \in DOMAIN fs0 /\ p.ext = "wav")
    ELSE << >>

SuppliesUpload(r) == r.ctype = "form" /\ r.hasFile /\ r.filename

SuppliesPath(r) == r.ctype = "json" /\ r.isObject /\ r.path # NoPath

C6_NoRetry ==
    /\ Len(calls) <= 1
    /\ \A i \in 1..Len(calls) :
        calls[i].outcome = "fail" =>
            /\ pc \in {"done", "idle"}
            /\ resp.status = 500
            /\ resp.body = "json"
            /\ resp.error.cause = ModelFailure
            /\ resp.error.advice = (calls[i].origin \in {"disk", "synth"})

\* Witness of C6: a call with a default reference failed.
C6_Witness ==
    /\ pc = "done"
    /\ Len(calls) = 1
    /\ calls[1].outcome = "fail"
    /\ calls[1].origin = "synth"
    /\ resp.error.advice

\* C7: requests are served only after the model load succeeded; a failed load
\* ends the process with a non-zero status before any request; /health
\* reports model_loaded = true.
C7_ServingImpliesModelLoaded ==
    /\ (phase = "serving" \/ pc # "idle" \/ nreq > 0) =>
            phase = "serving" /\ tts = "TTS" /\ initOk
    /\ (phase \in {"serving", "exited"} => (phase = "exited") = ~initOk)
    /\ (phase = "exited" => exitCode # 0 /\ exitCode # -1)
    /\ (pc = "done" /\ req.endpoint = "health" => resp.model_loaded)

\* Witness of C7: a /health request was answered.
C7_Witness == pc = "done" /\ req.endpoint = "health" /\ resp.model_loaded

\* C8: on /api/tts/speaker-similarity the reference file handed to the model
\* is single-channel at 22050 Hz, and so are the samples in it.
C8_ReferenceMono22050 ==
    req.endpoint = "sim" =>
        /\ \A i \in 1..Len(calls) :
            /\ calls[i].file.dec
            /\ calls[i].file.rate = 22050
            /\ calls[i].file.chans = 1
        /\ (pc = "sim_call" => data.rate = 22050 /\ data.chans = 1)

\* Witness of C8: the model was called for a two-channel upload at another rate.
C8_Witness ==
    /\ req.endpoint = "sim"
    /\ Len(calls) = 1
    /\ req.clip.dec
    /\ req.clip.chans = 2
    /\ req.clip.rate = 11025

MonoTarget(c) == c.dec /\ c.rate = 22050 /\ c.chans = 1

\* The handler's positions between saving the upload and deleting it.
AfterSave == {"sim_decode", "sim_resample", "sim_downmix", "sim_call", "sim_encode",
              "sim_finish"}

\* C9: transcoding runs only after a failed direct decode, resampling only for
\* a decoded rate other than 22050 Hz, downmixing only for more than one
\* channel; a decodable 22050 Hz mono clip goes through unchanged.
C9_StepsOnlyWhenNeeded ==
    req.endpoint = "sim" =>
        /\ ("transcode" \in Range(ops) => ~req.clip.dec /\ ops[1] = "decode_failed")
        /\ ("resample" \in Range(ops) => req.clip.dec /\ req.clip.rate # 22050)
        /\ ("downmix" \in Range(ops) => req.clip.dec /\ req.clip.chans > 1)
        /\ (MonoTarget(req.clip) /\ pc \in AfterSave => Content(fs, speaker_wav) = req.clip)
        /\ (MonoTarget(req.clip) =>
                \A i \in 1..Len(calls) :
                    /\ calls[i].file = req.clip
                    /\ calls[i].ops = << "decode", "coerced" >>
                    /\ data = Decoded(req.clip))

\* Witness of C9: the model was called for a decodable 22050 Hz mono upload.
C9_Witness ==
    /\ req.endpoint = "sim"
    /\ MonoTarget(req.clip)
    /\ Len(calls) = 1
    /\ calls[1].file = req.clip

\* C10: every file that existed when a request arrived still exists: a
\* request deletes only files it created.
C10_OnlyOwnFilesDeleted ==
    \A p \in DOMAIN fs0 : Exists(fs, p)

====
